---------------------------- MODULE Spec2Model ----------------------------
(***************************************************************************)
(* Model of hamidoujand/reverse-proxy, package proxy (src/proxy/proxy.go). *)
(*                                                                         *)
(* One Proxy (fixed upstream Host, one shared outbound Client/Transport)   *)
(* serves NumExchanges inbound requests, each on its own goroutine, in any *)
(* interleaving.  Every exchange runs Proxy.ServeHTTP step by step; the    *)
(* flush goroutine it starts runs concurrently with the handler.           *)
(*                                                                         *)
(* A text (header value, address, body chunk) is a sequence of tokens, a   *)
(* token being a character or a word that the code never looks inside.     *)
(* A header map (http.Header) is a function from HeaderKeys to a sequence  *)
(* of values; the empty sequence is an absent key.                         *)
(***************************************************************************)
EXTENDS Integers, Sequences, FiniteSets, TLC

VARIABLES
    proxyHost,      \* p.Host: the upstream target [Scheme, Host] set by New
    transport,      \* p.Client.Transport: [h2 |-> the https/h2 protocol is registered]
    configureCalls, \* number of http2.ConfigureTransport calls made on the transport
    pc,             \* pc[e]: position of exchange e's handler goroutine
    inbound,        \* inbound[e]: the request as the caller sent it
    req,            \* req[e]: *http.Request r, mutated in place by the handler
    outReq,         \* outReq[e]: the requests handed to p.Client.Do, in order
    resp,           \* resp[e]: the upstream *http.Response (NoResp before Do returns one)
    trailer,        \* trailer[e]: resp.Trailer as it is now (values only after EOF)
    readPos,        \* readPos[e]: chunks of resp.Body consumed by io.Copy
    bodyState,      \* bodyState[e]: "unread", "eof", "readErr" or "writeErr"
    w,              \* w[e]: the http.ResponseWriter (sink) of the exchange
    done,           \* done[e]: the done channel: "none", "open" or "closed"
    closeCount,     \* closeCount[e]: close(done) executions
    fl,             \* fl[e]: flush goroutine: "none", "waiting" (in the select), "stopped"
    ticksAfterClose,\* ticksAfterClose[e]: ticks taken by the loop after close(done)
    lastErr,        \* lastErr[e]: the error the handler returned on: [kind, text]
    events,         \* events[e]: the handler's calls on the sink, in order
    relayed,        \* relayed[e]: what the caller has received once the server finished
    newCall         \* the call of New: [host, state, ok, err]

vars == <<proxyHost, transport, configureCalls, pc, inbound, req, outReq, resp, trailer,
          readPos, bodyState, w, done, closeCount, fl, ticksAfterClose,
          lastErr, events, relayed, newCall>>

-----------------------------------------------------------------------------
(* Bounds *)

NumExchanges == 2
MaxChunks == 2
MaxURLLen == 5

Exchanges == 1..NumExchanges

-----------------------------------------------------------------------------
(* Sequences and strings *)

RECURSIVE Flatten(_)
Flatten(ss) == IF ss = <<>> THEN <<>> ELSE Head(ss) \o Flatten(Tail(ss))

Range(s) == {s[i] : i \in DOMAIN s}

\* All orders in which a Go map iteration can yield the keys of set S.
Orders(S) ==
    {s \in [1..Cardinality(S) -> S] : \A i, j \in DOMAIN s : i # j => s[i] # s[j]}

\* strings.Join(elems, sep): the elements in order, sep between neighbours.  Every
\* element and the separator is one token of the resulting text.
RECURSIVE Join(_, _)
Join(elems, sep) ==
    IF elems = <<>> THEN <<>>
    ELSE IF Len(elems) = 1 THEN <<Head(elems)>>
    ELSE <<Head(elems), sep>> \o Join(Tail(elems), sep)

\* The comma-separated elements of a header value (as a Trailer announcement is
\* read): the maximal runs of tokens other than ",".
RECURSIVE SplitComma(_, _)
SplitComma(s, cur) ==
    IF s = <<>> THEN (IF cur = <<>> THEN {} ELSE {cur})
    ELSE IF Head(s) = ","
         THEN (IF cur = <<>> THEN {} ELSE {cur}) \cup SplitComma(Tail(s), <<>>)
         ELSE SplitComma(Tail(s), Append(cur, Head(s)))

LastIndex(s, c) ==
    IF \E i \in DOMAIN s : s[i] = c
    THEN CHOOSE i \in DOMAIN s : s[i] = c /\ \A j \in DOMAIN s : s[j] = c => j <= i
    ELSE 0

FirstIndex(s, c) ==
    IF \E i \in DOMAIN s : s[i] = c
    THEN CHOOSE i \in DOMAIN s : s[i] = c /\ \A j \in DOMAIN s : s[j] = c => j >= i
    ELSE 0

Contains(s, c) == \E i \in DOMAIN s : s[i] = c

\* net.SplitHostPort(hostport): [host, port, err]; err = "" on success.
\* Indices are 1-based; i, j, k follow the library's i, j, k shifted by one.
SplitHostPort(hostport) ==
    LET n == Len(hostport)
        i == LastIndex(hostport, ":")
        Fail(why) == [host |-> <<>>, port |-> <<>>, err |-> why]
        Rest(host, j, k) ==
            IF Contains(SubSeq(hostport, j, n), "[")
            THEN Fail("unexpected '[' in address")
            ELSE IF Contains(SubSeq(hostport, k, n), "]")
            THEN Fail("unexpected ']' in address")
            ELSE [host |-> host, port |-> SubSeq(hostport, i + 1, n), err |-> ""]
    IN  IF i = 0 THEN Fail("missing port in address")
        ELSE IF hostport[1] = "["
        THEN LET end == FirstIndex(hostport, "]")
             IN  IF end = 0 THEN Fail("missing ']' in address")
                 ELSE IF end = n THEN Fail("missing port in address")
                 ELSE IF end + 1 = i
                      THEN Rest(SubSeq(hostport, 2, end - 1), 2, end + 1)
                      ELSE IF hostport[end + 1] = ":"
                           THEN Fail("too many colons in address")
                           ELSE Fail("missing port in address")
        ELSE LET host == SubSeq(hostport, 1, i - 1)
             IN  IF Contains(host, ":") THEN Fail("too many colons in address")
                 ELSE Rest(host, 1, 1)

-----------------------------------------------------------------------------
(* Header maps *)

HeaderKeys == {"Response-Header-1", "X", "Trailer", "X-Trailer", "Y-Trailer",
               "X-Forwarded-For", "Test-Header-1", "Test-Header-2"}

EmptyHeader == [k \in HeaderKeys |-> <<>>]

\* Mutant of HeaderSet: appends like http.Header.Add instead of replacing.
HeaderAdd(h, key, val) == [h EXCEPT ![key] = Append(@, val)]

\* http.Header.Set(key, value): the key's values become the single value.
HeaderSet(h, key, val) == [h EXCEPT ![key] = <<val>>]

\* for _, val := range values { h.Set(key, val) }
RECURSIVE SetEach(_, _, _)
SetEach(h, key, values) ==
    IF values = <<>> THEN h
    ELSE SetEach(HeaderSet(h, key, Head(values)), key, Tail(values))

\* for key, values := range src { for _, val := range values { h.Set(key, val) } }
\* over the keys of src in the order `order`.
RECURSIVE CopyInto(_, _, _)
CopyInto(h, src, order) ==
    IF order = <<>> THEN h
    ELSE CopyInto(SetEach(h, Head(order), src[Head(order)]), src, Tail(order))

PresentKeys(h) == {k \in DOMAIN h : h[k] # <<>>}

-----------------------------------------------------------------------------
(* The upstream target and the inbound requests *)

\* url.Parse of the configured upstream URL, as New stores it in p.Host.
UpstreamTarget == [Scheme |-> "http", Host |-> "upstream:8080"]

WellFormedAddr == <<"1", "0", ":", "8">>
BracketAddr == <<"[", ":", ":", "1", "]", ":", "8">>
NoPortAddr == <<"1", "0">>
TooManyColonsAddr == <<"1", ":", "0", ":", "8">>

Request(proto, host, scheme, uri, addr, hdr) ==
    [ProtoMajor |-> proto, Host |-> host, URLHost |-> "", URLScheme |-> scheme,
     RequestURI |-> uri, RemoteAddr |-> addr, Method |-> "GET", Path |-> uri,
     Header |-> hdr, Body |-> <<"payload">>]

\* The inbound requests the model draws from.
Requests ==
    { Request(1, "proxy.local", "", "/",
              WellFormedAddr, [EmptyHeader EXCEPT !["Test-Header-1"] = << <<"1">> >>,
                                                  !["Test-Header-2"] = << <<"2">> >>]),
      Request(2, "proxy.local", "https", "/x",
              BracketAddr,
              [EmptyHeader EXCEPT !["X-Forwarded-For"] = << <<"9">>, <<"7">> >>]),
      Request(1, "upstream:8080", "http", "/y", NoPortAddr, EmptyHeader),
      Request(2, "proxy.local", "https", "/z", TooManyColonsAddr, EmptyHeader) }

NoReq == [ProtoMajor |-> 0]

-----------------------------------------------------------------------------
(* The upstream: what p.Client.Do returns and what resp.Body yields *)

\* A body of n chunks; chunk i is the one-token text <<"i">>.
Body(n) == [i \in 1..n |-> <<ToString(i)>>]

Response(code, hdr, n, trl) ==
    [StatusCode |-> code, Header |-> hdr, Body |-> Body(n), Trailer |-> trl]

\* The upstream responses the model draws from.  Trailer maps each declared
\* trailer name to the values the upstream sends after the body.  resp.Header
\* never holds a Trailer key: the client moves the announcement to resp.Trailer.
Responses ==
    { Response(201, [EmptyHeader EXCEPT !["Response-Header-1"] = << <<"1">> >>],
               MaxChunks, [k \in {"X-Trailer"} |-> << <<"X-Value">> >>]),
      Response(200, [EmptyHeader EXCEPT !["X"] = << <<"1">>, <<"2">> >>],
               1, [k \in {} |-> <<>>]),
      Response(404, EmptyHeader,
               0, [k \in {"X-Trailer", "Y-Trailer"} |-> << <<"v">> >>]) }

NoResp == [StatusCode |-> 0]

\* Texts of the transport-level failures of p.Client.Do.
TransportErrors == { <<"connection refused">>, <<"timeout exceeded">> }

\* resp.Trailer when Do returns: the declared names, no values yet.
DeclaredTrailer(r) == [k \in DOMAIN r.Trailer |-> <<>>]

-----------------------------------------------------------------------------
(* The sink: http.ResponseWriter with http.Flusher *)

\* Header is the live map w.Header(); snapHeader and status are what WriteHeader
\* committed; buf holds written bytes not yet flushed; delivered holds the
\* flushes the caller has received, in order.
NewSink ==
    [Header |-> EmptyHeader, wroteHeader |-> FALSE, status |-> 0,
     snapHeader |-> EmptyHeader, buf |-> <<>>, delivered |-> <<>>]

\* w.WriteHeader(code): commits the status and the header map as it is now; a
\* second call is ignored.
SinkWriteHeader(s, code) ==
    IF s.wroteHeader THEN s
    ELSE [s EXCEPT !.wroteHeader = TRUE, !.status = code, !.snapHeader = s.Header]

\* w.Write(p): an implicit WriteHeader(200) if none was made, then the bytes.
SinkWrite(s, bytes) ==
    LET t == SinkWriteHeader(s, 200)
    IN  [t EXCEPT !.buf = t.buf \o bytes]

\* w.(http.Flusher).Flush(): an implicit WriteHeader(200) if none was made, then
\* the buffered bytes go to the caller as one delivery.
SinkFlush(s) ==
    LET t == SinkWriteHeader(s, 200)
    IN  IF t.buf = <<>> THEN t
        ELSE [t EXCEPT !.delivered = Append(t.delivered, t.buf), !.buf = <<>>]

\* w.WriteHeader(http.StatusInternalServerError); fmt.Fprintln(w, err)
SinkError(s, errText) ==
    SinkWrite(SinkWriteHeader(s, 500), errText \o <<"\n">>)

\* The trailer names a committed header set announces.
AnnouncedTrailers(hdr) ==
    UNION { {run[1] : run \in {r \in SplitComma(hdr["Trailer"][i], <<>>) : Len(r) = 1}}
            : i \in DOMAIN hdr["Trailer"] }

\* What the caller holds once the server has finished the response: the
\* committed status and headers, every written byte, and for each announced
\* trailer the value the live header map holds at that moment.
Result(s) ==
    LET t == SinkFlush(s)
    IN  [status |-> t.status,
         header |-> t.snapHeader,
         body |-> Flatten(t.delivered),
         trailer |-> [k \in HeaderKeys |->
                        IF k \in AnnouncedTrailers(t.snapHeader) THEN t.Header[k]
                        ELSE <<>>]]

NoResult == [status |-> 0]

NoErr == [kind |-> "none", text |-> <<>>]

-----------------------------------------------------------------------------
(* Construction *)

\* The tokens of the URL strings handed to New: words of letters, a word of
\* digits, and the characters ":" and "/".
Letters == {"http", "upstream"}
Digits == {"8080"}
URLTokens == Letters \cup Digits \cup {":", "/"}

\* The configured upstream URL, and the strings New is tried on.
UpstreamURL == <<"http", ":", "/", "/", "upstream", ":", "8080">>

RawURLs == UNION {[1..n -> URLTokens] : n \in 0..MaxURLLen} \cup {UpstreamURL}

\* The string a text stands for.
RECURSIVE Text(_)
Text(s) == IF s = <<>> THEN "" ELSE Head(s) \o Text(Tail(s))

HasPrefix(s, prefix) ==
    Len(s) >= Len(prefix) /\ SubSeq(s, 1, Len(prefix)) = prefix

\* net/url getScheme(rawURL) from position i on: [scheme, path, err].
RECURSIVE getSchemeFrom(_, _)
getSchemeFrom(rawURL, i) ==
    LET NoScheme == [scheme |-> <<>>, path |-> rawURL, err |-> ""]
    IN  IF i > Len(rawURL) THEN NoScheme
        ELSE IF rawURL[i] \in Letters THEN getSchemeFrom(rawURL, i + 1)
        ELSE IF rawURL[i] \in Digits
             THEN (IF i = 1 THEN NoScheme ELSE getSchemeFrom(rawURL, i + 1))
        ELSE IF rawURL[i] = ":"
             THEN (IF i = 1
                   THEN [scheme |-> <<>>, path |-> <<>>, err |-> "missing protocol scheme"]
                   ELSE [scheme |-> SubSeq(rawURL, 1, i - 1),
                         path |-> SubSeq(rawURL, i + 1, Len(rawURL)), err |-> ""])
        ELSE NoScheme

getScheme(rawURL) == getSchemeFrom(rawURL, 1)

\* net/url validOptionalPort(port): empty, or ":" followed by digits only.
validOptionalPort(port) ==
    \/ port = <<>>
    \/ port[1] = ":" /\ \A i \in 2..Len(port) : port[i] \in Digits

\* net/url parseHost(host) for a host without brackets: [host, err].
parseHost(host) ==
    LET i == LastIndex(host, ":")
    IN  IF i # 0 /\ ~validOptionalPort(SubSeq(host, i, Len(host)))
        THEN [host |-> <<>>, err |-> "invalid port after host"]
        ELSE [host |-> host, err |-> ""]

\* url.Parse(rawURL) for strings of URLTokens (no query, fragment, userinfo or
\* escape): [Scheme, Opaque, Host, Path, err]; err = "" on success.
Parse(rawURL) ==
    LET gs == getScheme(rawURL)
        rest == gs.path
        Fail(why) == [Scheme |-> "", Opaque |-> "", Host |-> "", Path |-> "", err |-> why]
        slash == FirstIndex(rest, "/")
        segment == IF slash = 0 THEN rest ELSE SubSeq(rest, 1, slash - 1)
        after == SubSeq(rest, 3, Len(rest))
        cut == FirstIndex(after, "/")
        authority == IF cut = 0 THEN after ELSE SubSeq(after, 1, cut - 1)
        path == IF cut = 0 THEN <<>> ELSE SubSeq(after, cut, Len(after))
        ph == parseHost(authority)
    IN  IF gs.err # "" THEN Fail(gs.err)
        ELSE IF ~HasPrefix(rest, <<"/">>) /\ gs.scheme # <<>>
        THEN [Scheme |-> Text(gs.scheme), Opaque |-> Text(rest), Host |-> "",
              Path |-> "", err |-> ""]
        ELSE IF ~HasPrefix(rest, <<"/">>) /\ Contains(segment, ":")
        THEN Fail("first path segment in URL cannot contain colon")
        ELSE IF (gs.scheme # <<>> \/ ~HasPrefix(rest, <<"/", "/", "/">>))
                /\ HasPrefix(rest, <<"/", "/">>)
        THEN IF ph.err # "" THEN Fail(ph.err)
             ELSE [Scheme |-> Text(gs.scheme), Opaque |-> "", Host |-> Text(ph.host),
                   Path |-> Text(path), err |-> ""]
        ELSE [Scheme |-> Text(gs.scheme), Opaque |-> "", Host |-> "",
              Path |-> Text(rest), err |-> ""]

\* p.Host of a Proxy that was not built.
NoTarget == [Scheme |-> "", Host |-> ""]

\* New(host): [ok, Host, err]: the Proxy's upstream target when url.Parse accepts
\* host, else no Proxy and the wrapped error.
New(host) ==
    LET u == Parse(host)
    IN  IF u.err # ""
        THEN [ok |-> FALSE, Host |-> NoTarget, err |-> "parse url: " \o u.err]
        ELSE [ok |-> TRUE, Host |-> [Scheme |-> u.Scheme, Host |-> u.Host], err |-> ""]

\* The call New(host) before and after it returns.
Called(host) == [host |-> host, state |-> "called", ok |-> FALSE, err |-> ""]

Constructed(host) ==
    [host |-> host, state |-> "returned", ok |-> New(host).ok, err |-> New(host).err]

\* No request has been received yet.
NoExchange ==
    /\ configureCalls = 0
    /\ pc = [e \in Exchanges |-> "idle"]
    /\ inbound = [e \in Exchanges |-> NoReq]
    /\ req = [e \in Exchanges |-> NoReq]
    /\ outReq = [e \in Exchanges |-> <<>>]
    /\ resp = [e \in Exchanges |-> NoResp]
    /\ trailer = [e \in Exchanges |-> <<>>]
    /\ readPos = [e \in Exchanges |-> 0]
    /\ bodyState = [e \in Exchanges |-> "unread"]
    /\ w = [e \in Exchanges |-> NewSink]
    /\ done = [e \in Exchanges |-> "none"]
    /\ closeCount = [e \in Exchanges |-> 0]
    /\ fl = [e \in Exchanges |-> "none"]
    /\ ticksAfterClose = [e \in Exchanges |-> 0]
    /\ lastErr = [e \in Exchanges |-> NoErr]
    /\ events = [e \in Exchanges |-> <<>>]
    /\ relayed = [e \in Exchanges |-> NoResult]

\* The Proxy built by New(UpstreamURL), before its first request.
Init ==
    /\ newCall = Constructed(UpstreamURL)
    /\ proxyHost = UpstreamTarget
    /\ transport = [h2 |-> FALSE]
    /\ NoExchange

\* New is called with any of the strings.
NewInit ==
    /\ newCall \in {Called(host) : host \in RawURLs}
    /\ proxyHost = NoTarget
    /\ transport = [h2 |-> FALSE]
    /\ NoExchange

\* New returns: the Proxy with its upstream target, or the error.
NewReturn ==
    /\ newCall.state = "called"
    /\ newCall' = Constructed(newCall.host)
    /\ proxyHost' = New(newCall.host).Host
    /\ UNCHANGED <<transport, configureCalls, pc, inbound, req, outReq, resp, trailer,
                   readPos, bodyState, w, done, closeCount, fl, ticksAfterClose,
                   lastErr, events, relayed>>

NewNext == NewReturn

NewSpec == NewInit /\ [][NewNext]_vars

-----------------------------------------------------------------------------
(* Proxy.ServeHTTP, one action per step of the handler goroutine *)

\* http2.ConfigureTransport(t): registers the h2 protocol on the transport; a
\* transport that already has it registered is refused with an error.
ConfigureTransport(t) ==
    IF t.h2
    THEN [t |-> t, err |-> <<"protocol https already registered">>]
    ELSE [t |-> [t EXCEPT !.h2 = TRUE], err |-> <<>>]

\* Mutant of Rewrite: leaves r.RequestURI as the caller sent it.
RewriteKeepURI(r, host) ==
    [r EXCEPT !.Host = host.Host, !.URLHost = host.Host, !.URLScheme = host.Scheme]

\* The forwarding rewrite of r against the upstream target.
Rewrite(r, host) ==
    [r EXCEPT !.Host = host.Host, !.URLHost = host.Host,
              !.URLScheme = host.Scheme, !.RequestURI = ""]

\* Mutant of Forward: the rewrite goes the wrong way and stores the request's
\* host and scheme in p.Host.
ForwardIntoTarget(e, r) ==
    /\ pc[e] = "idle"
    /\ inbound' = [inbound EXCEPT ![e] = r]
    /\ proxyHost' = [Scheme |-> r.URLScheme, Host |-> r.Host]
    /\ req' = [req EXCEPT ![e] = [r EXCEPT !.RequestURI = ""]]
    /\ pc' = [pc EXCEPT ![e] = "split"]
    /\ UNCHANGED <<lastErr, newCall, transport, configureCalls, outReq, resp, trailer,
                   readPos, bodyState, w, done, closeCount, fl, ticksAfterClose,
                   events, relayed>>

\* Entry of ServeHTTP for inbound request r, and the rewrite.
Forward(e, r) ==
    /\ pc[e] = "idle"
    /\ inbound' = [inbound EXCEPT ![e] = r]
    /\ req' = [req EXCEPT ![e] = Rewrite(r, proxyHost)]
    /\ pc' = [pc EXCEPT ![e] = "split"]
    /\ UNCHANGED <<lastErr, proxyHost, newCall, transport, configureCalls, outReq, resp, trailer,
                   readPos, bodyState, w, done, closeCount, fl, ticksAfterClose,
                   events, relayed>>

\* Mutant of StampForwardedFor: appends the caller's IP to the values present.
StampAppend(hdr, ip) == HeaderAdd(hdr, "X-Forwarded-For", ip)

\* Mutant of StampForwardedFor: builds a fresh header map holding the IP alone.
StampFresh(hdr, ip) == HeaderSet(EmptyHeader, "X-Forwarded-For", ip)

\* r.Header.Set("X-Forwarded-For", ip)
StampForwardedFor(hdr, ip) == HeaderSet(hdr, "X-Forwarded-For", ip)

\* Mutant of SetForwardedFor: the error of net.SplitHostPort is ignored.
SetForwardedForIgnoreErr(e) ==
    /\ pc[e] = "split"
    /\ LET sp == SplitHostPort(req[e].RemoteAddr)
       IN  req' = [req EXCEPT ![e].Header = StampForwardedFor(req[e].Header, sp.host)]
    /\ pc' = [pc EXCEPT ![e] = "proto"]
    /\ UNCHANGED <<w, lastErr, proxyHost, newCall, transport, configureCalls, inbound, outReq,
                   resp, trailer, readPos, bodyState, done, closeCount, fl,
                   ticksAfterClose, events, relayed>>

\* net.SplitHostPort(r.RemoteAddr); on error a 500 and return, else X-Forwarded-For.
SetForwardedFor(e) ==
    /\ pc[e] = "split"
    /\ LET sp == SplitHostPort(req[e].RemoteAddr)
       IN  IF sp.err # ""
           THEN /\ w' = [w EXCEPT ![e] = SinkError(w[e], <<sp.err>>)]
                /\ lastErr' = [lastErr EXCEPT ![e] = [kind |-> "addr", text |-> <<sp.err>>]]
                /\ pc' = [pc EXCEPT ![e] = "returned"]
                /\ req' = req
           ELSE /\ req' = [req EXCEPT ![e].Header =
                              StampForwardedFor(req[e].Header, sp.host)]
                /\ pc' = [pc EXCEPT ![e] = "proto"]
                /\ UNCHANGED <<w, lastErr>>
    /\ UNCHANGED <<proxyHost, newCall, transport, configureCalls, inbound, outReq, resp,
                   trailer, readPos, bodyState, done, closeCount, fl,
                   ticksAfterClose, events, relayed>>

\* Mutant of CheckProto: the protocol of the request is not looked at and the
\* transport is never configured.
CheckProtoSkip(e) ==
    /\ pc[e] = "proto"
    /\ pc' = [pc EXCEPT ![e] = "do"]
    /\ UNCHANGED <<lastErr, proxyHost, newCall, transport, configureCalls, inbound, req, outReq,
                   resp, trailer, readPos, bodyState, w, done, closeCount, fl,
                   ticksAfterClose, events, relayed>>

\* if r.ProtoMajor == 2 { the call of http2.ConfigureTransport begins }
CheckProto(e) ==
    /\ pc[e] = "proto"
    /\ IF req[e].ProtoMajor = 2
       THEN /\ pc' = [pc EXCEPT ![e] = "configuring"]
            /\ configureCalls' = configureCalls + 1
       ELSE /\ pc' = [pc EXCEPT ![e] = "do"]
            /\ configureCalls' = configureCalls
    /\ UNCHANGED <<lastErr, proxyHost, newCall, transport, inbound, req, outReq, resp, trailer,
                   readPos, bodyState, w, done, closeCount, fl, ticksAfterClose,
                   events, relayed>>

\* http2.ConfigureTransport returns; on error a 500 and return.
ConfigureReturn(e) ==
    /\ pc[e] = "configuring"
    /\ LET c == ConfigureTransport(transport)
       IN  /\ transport' = c.t
           /\ IF c.err # <<>>
              THEN /\ w' = [w EXCEPT ![e] = SinkError(w[e], c.err)]
                   /\ lastErr' = [lastErr EXCEPT ![e] = [kind |-> "upgrade", text |-> c.err]]
                   /\ pc' = [pc EXCEPT ![e] = "returned"]
              ELSE /\ UNCHANGED <<w, lastErr>>
                   /\ pc' = [pc EXCEPT ![e] = "do"]
    /\ UNCHANGED <<proxyHost, newCall, configureCalls, inbound, req, outReq, resp, trailer,
                   readPos, bodyState, done, closeCount, fl, ticksAfterClose,
                   events, relayed>>

\* Mutant of DoFail: the failed call is issued a second time before giving up.
DoFailRetry(e, errText) ==
    /\ pc[e] = "do"
    /\ outReq' = [outReq EXCEPT ![e] = outReq[e] \o <<req[e], req[e]>>]
    /\ w' = [w EXCEPT ![e] = SinkError(w[e], errText)]
    /\ lastErr' = [lastErr EXCEPT ![e] = [kind |-> "transport", text |-> errText]]
    /\ pc' = [pc EXCEPT ![e] = "returned"]
    /\ UNCHANGED <<proxyHost, newCall, transport, configureCalls, inbound, req, resp,
                   trailer, readPos, bodyState, done, closeCount, fl,
                   ticksAfterClose, events, relayed>>

\* resp, err := p.Client.Do(r) fails: a 500 with the error's text, and return.
DoFail(e, errText) ==
    /\ pc[e] = "do"
    /\ outReq' = [outReq EXCEPT ![e] = Append(outReq[e], req[e])]
    /\ w' = [w EXCEPT ![e] = SinkError(w[e], errText)]
    /\ lastErr' = [lastErr EXCEPT ![e] = [kind |-> "transport", text |-> errText]]
    /\ pc' = [pc EXCEPT ![e] = "returned"]
    /\ UNCHANGED <<proxyHost, newCall, transport, configureCalls, inbound, req, resp,
                   trailer, readPos, bodyState, done, closeCount, fl,
                   ticksAfterClose, events, relayed>>

\* resp, err := p.Client.Do(r) returns the upstream response r2.
DoOk(e, r2) ==
    /\ pc[e] = "do"
    /\ outReq' = [outReq EXCEPT ![e] = Append(outReq[e], req[e])]
    /\ resp' = [resp EXCEPT ![e] = r2]
    /\ trailer' = [trailer EXCEPT ![e] = DeclaredTrailer(r2)]
    /\ pc' = [pc EXCEPT ![e] = "copyHeaders"]
    /\ UNCHANGED <<lastErr, proxyHost, newCall, transport, configureCalls, inbound, req, readPos,
                   bodyState, w, done, closeCount, fl, ticksAfterClose, events,
                   relayed>>

\* The header copy loop of one response onto the sink's header map.
CopyHeadersOnto(h, src) ==
    CopyInto(h, src, CHOOSE o \in Orders(PresentKeys(src)) : TRUE)

\* for header, values := range resp.Header { ... w.Header().Set(header, val) }
CopyHeaders(e) ==
    /\ pc[e] = "copyHeaders"
    /\ w' = [w EXCEPT ![e].Header = CopyHeadersOnto(w[e].Header, resp[e].Header)]
    /\ events' = [events EXCEPT ![e] =
                    IF PresentKeys(resp[e].Header) # {}
                    THEN Append(events[e], "headers") ELSE events[e]]
    /\ pc' = [pc EXCEPT ![e] = "spawn"]
    /\ UNCHANGED <<lastErr, proxyHost, newCall, transport, configureCalls, inbound, req, outReq,
                   resp, trailer, readPos, bodyState, done, closeCount, fl,
                   ticksAfterClose, relayed>>

\* done := make(chan struct{}); go func() { ... }()
StartFlushLoop(e) ==
    /\ pc[e] = "spawn"
    /\ done' = [done EXCEPT ![e] = "open"]
    /\ fl' = [fl EXCEPT ![e] = "waiting"]
    /\ pc' = [pc EXCEPT ![e] = "announce"]
    /\ UNCHANGED <<lastErr, proxyHost, newCall, transport, configureCalls, inbound, req, outReq,
                   resp, trailer, readPos, bodyState, w, closeCount,
                   ticksAfterClose, events, relayed>>

\* trailerKeys: the names of resp.Trailer in the order the map range yields them.
\* w.Header().Set("Trailer", strings.Join(trailerKeys, ","))
Announce(h, trailerKeys) == HeaderSet(h, "Trailer", Join(trailerKeys, ","))

\* Mutant of AnnounceTrailers: the status is written first, the announcement after.
AnnounceAfterStatus(e) ==
    /\ pc[e] = "announce"
    /\ \E trailerKeys \in Orders(DOMAIN trailer[e]) :
          w' = [w EXCEPT ![e] =
                  [SinkWriteHeader(w[e], resp[e].StatusCode) EXCEPT
                     !.Header = Announce(w[e].Header, trailerKeys)]]
    /\ events' = [events EXCEPT ![e] = events[e] \o <<"status", "announce">>]
    /\ pc' = [pc EXCEPT ![e] = "copy"]
    /\ UNCHANGED <<lastErr, proxyHost, newCall, transport, configureCalls, inbound, req, outReq,
                   resp, trailer, readPos, bodyState, done, closeCount, fl,
                   ticksAfterClose, relayed>>

AnnounceTrailers(e) ==
    /\ pc[e] = "announce"
    /\ \E trailerKeys \in Orders(DOMAIN trailer[e]) :
          w' = [w EXCEPT ![e].Header = Announce(w[e].Header, trailerKeys)]
    /\ events' = [events EXCEPT ![e] = Append(events[e], "announce")]
    /\ pc' = [pc EXCEPT ![e] = "status"]
    /\ UNCHANGED <<lastErr, proxyHost, newCall, transport, configureCalls, inbound, req, outReq,
                   resp, trailer, readPos, bodyState, done, closeCount, fl,
                   ticksAfterClose, relayed>>

\* w.WriteHeader(resp.StatusCode)
WriteStatus(e) ==
    /\ pc[e] = "status"
    /\ w' = [w EXCEPT ![e] = SinkWriteHeader(w[e], resp[e].StatusCode)]
    /\ events' = [events EXCEPT ![e] = Append(events[e], "status")]
    /\ pc' = [pc EXCEPT ![e] = "copy"]
    /\ UNCHANGED <<lastErr, proxyHost, newCall, transport, configureCalls, inbound, req, outReq,
                   resp, trailer, readPos, bodyState, done, closeCount, fl,
                   ticksAfterClose, relayed>>

\* io.Copy(w, resp.Body): one chunk is read from the upstream and written to the sink.
CopyChunk(e) ==
    /\ pc[e] = "copy"
    /\ readPos[e] < Len(resp[e].Body)
    /\ readPos' = [readPos EXCEPT ![e] = readPos[e] + 1]
    /\ w' = [w EXCEPT ![e] = SinkWrite(w[e], resp[e].Body[readPos[e] + 1])]
    /\ events' = [events EXCEPT ![e] = Append(events[e], "body")]
    /\ UNCHANGED <<lastErr, proxyHost, newCall, transport, configureCalls, pc, inbound, req, outReq,
                   resp, trailer, bodyState, done, closeCount, fl,
                   ticksAfterClose, relayed>>

\* io.Copy: the read of resp.Body fails (reset, total timeout); the error is dropped.
CopyReadErr(e) ==
    /\ pc[e] = "copy"
    /\ bodyState' = [bodyState EXCEPT ![e] = "readErr"]
    /\ pc' = [pc EXCEPT ![e] = "fill"]
    /\ UNCHANGED <<lastErr, proxyHost, newCall, transport, configureCalls, inbound, req, outReq,
                   resp, trailer, readPos, w, done, closeCount, fl,
                   ticksAfterClose, events, relayed>>

\* Mutant of CopyWriteErr: the handler returns on the copy error at once.
CopyWriteErrReturn(e) ==
    /\ pc[e] = "copy"
    /\ readPos[e] < Len(resp[e].Body)
    /\ readPos' = [readPos EXCEPT ![e] = readPos[e] + 1]
    /\ bodyState' = [bodyState EXCEPT ![e] = "writeErr"]
    /\ events' = [events EXCEPT ![e] = Append(events[e], "body")]
    /\ pc' = [pc EXCEPT ![e] = "returned"]
    /\ UNCHANGED <<lastErr, proxyHost, newCall, transport, configureCalls, inbound, req, outReq,
                   resp, trailer, w, done, closeCount, fl, ticksAfterClose,
                   relayed>>

\* io.Copy: a chunk is read but the write to the sink fails; the error is dropped.
CopyWriteErr(e) ==
    /\ pc[e] = "copy"
    /\ readPos[e] < Len(resp[e].Body)
    /\ readPos' = [readPos EXCEPT ![e] = readPos[e] + 1]
    /\ bodyState' = [bodyState EXCEPT ![e] = "writeErr"]
    /\ events' = [events EXCEPT ![e] = Append(events[e], "body")]
    /\ pc' = [pc EXCEPT ![e] = "fill"]
    /\ UNCHANGED <<lastErr, proxyHost, newCall, transport, configureCalls, inbound, req, outReq,
                   resp, trailer, w, done, closeCount, fl, ticksAfterClose,
                   relayed>>

\* io.Copy: resp.Body reaches end-of-stream, which fills resp.Trailer's values.
CopyEOF(e) ==
    /\ pc[e] = "copy"
    /\ readPos[e] = Len(resp[e].Body)
    /\ bodyState' = [bodyState EXCEPT ![e] = "eof"]
    /\ trailer' = [trailer EXCEPT ![e] = resp[e].Trailer]
    /\ pc' = [pc EXCEPT ![e] = "fill"]
    /\ UNCHANGED <<lastErr, proxyHost, newCall, transport, configureCalls, inbound, req, outReq,
                   resp, readPos, w, done, closeCount, fl, ticksAfterClose,
                   events, relayed>>

\* The trailer fill loop of resp.Trailer onto the sink's header map.
FillTrailersOnto(h, trl) ==
    CopyInto(h, trl, CHOOSE o \in Orders(DOMAIN trl) : TRUE)

\* for key, values := range resp.Trailer { ... w.Header().Set(key, val) }
FillTrailers(e) ==
    /\ pc[e] = "fill"
    /\ w' = [w EXCEPT ![e].Header = FillTrailersOnto(w[e].Header, trailer[e])]
    /\ events' = [events EXCEPT ![e] =
                    IF \E k \in DOMAIN trailer[e] : trailer[e][k] # <<>>
                    THEN Append(events[e], "trailers") ELSE events[e]]
    /\ pc' = [pc EXCEPT ![e] = "close"]
    /\ UNCHANGED <<lastErr, proxyHost, newCall, transport, configureCalls, inbound, req, outReq,
                   resp, trailer, readPos, bodyState, done, closeCount, fl,
                   ticksAfterClose, relayed>>

\* Mutant of CloseDone: ServeHTTP returns without closing done.
ReturnWithoutClose(e) ==
    /\ pc[e] = "close"
    /\ pc' = [pc EXCEPT ![e] = "returned"]
    /\ UNCHANGED <<lastErr, proxyHost, newCall, transport, configureCalls, inbound, req, outReq,
                   resp, trailer, readPos, bodyState, w, done, closeCount, fl,
                   ticksAfterClose, events, relayed>>

\* Mutant of CloseDone: the handler waits for the flush goroutine to stop before
\* it closes done and returns.
CloseDoneAfterLoop(e) ==
    /\ pc[e] = "close"
    /\ fl[e] = "stopped"
    /\ done' = [done EXCEPT ![e] = "closed"]
    /\ closeCount' = [closeCount EXCEPT ![e] = closeCount[e] + 1]
    /\ pc' = [pc EXCEPT ![e] = "returned"]
    /\ UNCHANGED <<lastErr, proxyHost, newCall, transport, configureCalls, inbound, req, outReq,
                   resp, trailer, readPos, bodyState, w, fl, ticksAfterClose,
                   events, relayed>>

\* close(done), and ServeHTTP returns.
CloseDone(e) ==
    /\ pc[e] = "close"
    /\ done' = [done EXCEPT ![e] = "closed"]
    /\ closeCount' = [closeCount EXCEPT ![e] = closeCount[e] + 1]
    /\ pc' = [pc EXCEPT ![e] = "returned"]
    /\ UNCHANGED <<lastErr, proxyHost, newCall, transport, configureCalls, inbound, req, outReq,
                   resp, trailer, readPos, bodyState, w, fl, ticksAfterClose,
                   events, relayed>>

\* After ServeHTTP has returned the server finishes the response; the caller
\* then holds the result (recorder.Result() in the tests).
FinishRequest(e) ==
    /\ pc[e] = "returned"
    /\ relayed' = [relayed EXCEPT ![e] = Result(w[e])]
    /\ pc' = [pc EXCEPT ![e] = "finished"]
    /\ UNCHANGED <<lastErr, proxyHost, newCall, transport, configureCalls, inbound, req, outReq,
                   resp, trailer, readPos, bodyState, w, done, closeCount, fl,
                   ticksAfterClose, events>>

-----------------------------------------------------------------------------
(* The flush goroutine: for { select { case <-time.Tick(10ms): Flush; case <-done: return } } *)

\* The state of the loop when it comes back to the select after a Flush: a fresh
\* ticker is not ready, so a closed done channel is the only ready case.
AfterFlush(d) == IF d = "closed" THEN "stopped" ELSE "waiting"

\* Mutant of TickFlush: the loop returns after its first tick instead of going
\* back to the select.
TickFlushOnce(e) ==
    /\ fl[e] = "waiting"
    /\ w' = [w EXCEPT ![e] = SinkFlush(w[e])]
    /\ fl' = [fl EXCEPT ![e] = "stopped"]
    /\ ticksAfterClose' = [ticksAfterClose EXCEPT ![e] =
                             IF done[e] = "closed" THEN @ + 1 ELSE @]
    /\ UNCHANGED <<lastErr, proxyHost, newCall, transport, configureCalls, pc, inbound, req, outReq,
                   resp, trailer, readPos, bodyState, done, closeCount, events,
                   relayed>>

\* case <-time.Tick(time.Millisecond * 10): w.(http.Flusher).Flush(), and back to
\* the select.  The ticker armed at the select may fire although done is closed
\* by now: the select then picks either ready case.
TickFlush(e) ==
    /\ fl[e] = "waiting"
    /\ w' = [w EXCEPT ![e] = SinkFlush(w[e])]
    /\ fl' = [fl EXCEPT ![e] = AfterFlush(done[e])]
    /\ ticksAfterClose' = [ticksAfterClose EXCEPT ![e] =
                             IF done[e] = "closed" THEN @ + 1 ELSE @]
    /\ UNCHANGED <<lastErr, proxyHost, newCall, transport, configureCalls, pc, inbound, req, outReq,
                   resp, trailer, readPos, bodyState, done, closeCount, events,
                   relayed>>

\* case <-done: return
LoopReturn(e) ==
    /\ fl[e] = "waiting"
    /\ done[e] = "closed"
    /\ fl' = [fl EXCEPT ![e] = "stopped"]
    /\ UNCHANGED <<lastErr, proxyHost, newCall, transport, configureCalls, pc, inbound, req, outReq,
                   resp, trailer, readPos, bodyState, w, done, closeCount,
                   ticksAfterClose, events, relayed>>

-----------------------------------------------------------------------------
(* Specifications *)

Handler(e) ==
    \/ \E r \in Requests : Forward(e, r)
    \/ SetForwardedFor(e)
    \/ CheckProto(e)
    \/ ConfigureReturn(e)
    \/ \E errText \in TransportErrors : DoFail(e, errText)
    \/ \E r2 \in Responses : DoOk(e, r2)
    \/ CopyHeaders(e)
    \/ StartFlushLoop(e)
    \/ AnnounceTrailers(e)
    \/ WriteStatus(e)
    \/ CopyChunk(e)
    \/ CopyReadErr(e)
    \/ CopyWriteErr(e)
    \/ CopyEOF(e)
    \/ FillTrailers(e)
    \/ CloseDone(e)

FlushLoop(e) == TickFlush(e) \/ LoopReturn(e)

\* Everything that happens for one exchange.
Exchange(e) == Handler(e) \/ FlushLoop(e) \/ FinishRequest(e)

Next ==
    \/ \E e \in Exchanges : Handler(e)
    \/ \E e \in Exchanges : FlushLoop(e)
    \/ \E e \in Exchanges : FinishRequest(e)

Spec == Init /\ [][Next]_vars

\* Every goroutine that can take a step eventually takes one: the handler of each
\* exchange and each flush loop are scheduled fairly.
FairSpec ==
    /\ Init /\ [][Next]_vars
    /\ \A e \in Exchanges : WF_vars(Handler(e)) /\ WF_vars(FlushLoop(e))

\* One exchange on its own, its two goroutines scheduled fairly.  Exchanges share
\* nothing that a flush loop reads or writes, so the loop of one exchange behaves
\* here as it does among the others.
NextOne == Exchange(1)

OneExchangeSpec ==
    /\ Init /\ [][NextOne]_vars
    /\ WF_vars(Handler(1)) /\ WF_vars(FlushLoop(1))

\* An upstream that waits longer than the flush interval after each chunk before
\* it produces anything more (TestProxyStream: 500ms against the loop's 10ms):
\* the read of io.Copy returns the next chunk, the end of the stream or an error
\* only after the tick that follows the previous write has fired, which leaves
\* nothing of that write in the sink's buffer.
SlowUpstream(e) == pc[e] = "copy" => w[e].buf = <<>>

StreamHandler(e) == SlowUpstream(e) /\ Handler(e)

StreamNext == StreamHandler(1) \/ FlushLoop(1) \/ FinishRequest(1)

\* One exchange against the slow upstream; the handler goes on whenever the
\* upstream has produced something and the flush goroutine is scheduled fairly.
StreamSpec ==
    /\ Init /\ [][StreamNext]_vars
    /\ WF_vars(StreamHandler(1)) /\ WF_vars(FlushLoop(1))

\* The exchanges one after the other: exchange e is served once every exchange
\* before it is over, its response finished and its flush goroutine gone.
Turn(e) ==
    \A d \in Exchanges : d < e => pc[d] = "finished" /\ fl[d] \in {"none", "stopped"}

SequentialHandler(e) == Turn(e) /\ Handler(e)

SequentialNext ==
    \/ \E e \in Exchanges : SequentialHandler(e)
    \/ \E e \in Exchanges : FlushLoop(e)
    \/ \E e \in Exchanges : FinishRequest(e)

\* Requests served one at a time over the shared transport.  Each goroutine is
\* scheduled fairly; p.Client.Do and every read of resp.Body return, with a
\* result or with the error of the client's total timeout (Timeout: 5s in New).
SequentialSpec ==
    /\ Init /\ [][SequentialNext]_vars
    /\ \A e \in Exchanges :
          WF_vars(SequentialHandler(e)) /\ WF_vars(FlushLoop(e)) /\ WF_vars(FinishRequest(e))

-----------------------------------------------------------------------------
(* Properties *)

Obtained(e) == resp[e] # NoResp

Returned(e) == pc[e] \in {"returned", "finished"}

Finished(e) == relayed[e] # NoResult

\* Every byte the handler has written to the sink, in order.
Written(s) == Flatten(s.delivered) \o s.buf

Last(s) == s[Len(s)]

Rank(tag) ==
    CASE tag = "headers" -> 1
      [] tag = "announce" -> 2
      [] tag = "status" -> 3
      [] tag = "body" -> 4
      [] tag = "trailers" -> 5

\* C1: within an exchange that obtained an upstream response the handler's steps
\* reach the sink in the order header copy, Trailer announcement, status write,
\* body writes, trailer values; each step finds its predecessor completed (all
\* headers copied before the announcement, the announcement before the status,
\* the status before any body byte, the whole body before any trailer value).
C1_StepOrder ==
    \A e \in Exchanges :
        LET ev == events[e] IN
        /\ \A i, j \in DOMAIN ev :
              i < j => \/ Rank(ev[i]) < Rank(ev[j])
                       \/ ev[i] = "body" /\ ev[j] = "body"
        /\ "announce" \in Range(ev) =>
              /\ \A k \in PresentKeys(resp[e].Header) : w[e].Header[k] # <<>>
              /\ w[e].Header["Trailer"] # <<>>
        /\ "status" \in Range(ev) => "announce" \in Range(ev)
        /\ "body" \in Range(ev) => "status" \in Range(ev)
        /\ "trailers" \in Range(ev) =>
              /\ "status" \in Range(ev)
              /\ bodyState[e] = "eof"
              /\ Cardinality({i \in DOMAIN ev : ev[i] = "body"}) = Len(resp[e].Body)

C1_Witness ==
    \E e \in Exchanges :
        /\ {"headers", "announce", "status", "body", "trailers"} \subseteq Range(events[e])
        /\ Cardinality({i \in DOMAIN events[e] : events[e][i] = "body"}) >= 2

\* C2 (as claimed): every exchange whose outbound call succeeded relays the
\* upstream's status code, exactly the upstream's body bytes in order, and every
\* upstream response header.
C2_RoundTrip ==
    \A e \in Exchanges :
        (Finished(e) /\ Obtained(e)) =>
            /\ relayed[e].status = resp[e].StatusCode
            /\ relayed[e].body = Flatten(resp[e].Body)
            /\ \A k \in PresentKeys(resp[e].Header) : relayed[e].header[k] # <<>>

\* C3: when p.Client.Do fails, the caller gets status 500 whose body is the
\* non-empty error text (and a newline), the outbound call was issued exactly
\* once, and the exchange has no upstream header, no Trailer announcement, no
\* done channel and no flush loop.
C3_TransportFailure ==
    \A e \in Exchanges :
        lastErr[e].kind = "transport" =>
            /\ lastErr[e].text # <<>>
            /\ w[e].wroteHeader /\ w[e].status = 500
            /\ Written(w[e]) = lastErr[e].text \o <<"\n">>
            /\ Len(outReq[e]) = 1
            /\ w[e].Header = EmptyHeader /\ w[e].snapHeader = EmptyHeader
            /\ events[e] = <<>>
            /\ done[e] = "none" /\ fl[e] = "none"
            /\ Finished(e) =>
                  /\ relayed[e].status = 500
                  /\ relayed[e].body = lastErr[e].text \o <<"\n">>
                  /\ relayed[e].header = EmptyHeader

C3_Witness ==
    \E e \in Exchanges : lastErr[e].kind = "transport" /\ Finished(e)

\* C4 (as claimed): on every completion of an exchange, successful or failed, the
\* done signal has been closed exactly once.
C4_ClosedOnEveryCompletion ==
    \A e \in Exchanges : Returned(e) => closeCount[e] = 1

\* C4 (amended): the done signal is never closed twice; an exchange that obtained
\* an upstream response has closed it exactly once when ServeHTTP returns, also
\* when the body copy failed; an exchange that returns on a malformed remote
\* address, an upgrade failure or a transport failure never creates the signal
\* and never closes one.
C4_ClosedOnceWhenCreated ==
    \A e \in Exchanges :
        /\ closeCount[e] <= 1
        /\ (done[e] = "closed") <=> (closeCount[e] = 1)
        /\ (done[e] # "none") => Obtained(e)
        /\ Returned(e) => closeCount[e] = (IF Obtained(e) THEN 1 ELSE 0)
        /\ (Returned(e) /\ lastErr[e].kind # "none") => done[e] = "none"

C4_Witness ==
    \E e, f \in Exchanges :
        /\ Returned(e) /\ bodyState[e] = "writeErr" /\ closeCount[e] = 1
        /\ Returned(f) /\ lastErr[f].kind = "upgrade" /\ closeCount[f] = 0

\* C5: once the body copy of an exchange has ended, its flush loop eventually
\* stops, and after close(done) the loop takes at most one more tick.
C5_FlushLoopTerminates ==
    /\ [](\A e \in Exchanges : ticksAfterClose[e] <= 1)
    /\ \A e \in Exchanges :
          (fl[e] = "waiting" /\ bodyState[e] # "unread") ~> (fl[e] = "stopped")

C5_Witness ==
    \E e \in Exchanges :
        fl[e] = "stopped" /\ ticksAfterClose[e] = 1 /\ bodyState[e] = "eof"

\* C6 (as claimed): the HTTP/2 upgrade of the shared transport is performed at
\* most once over all exchanges, and never by two exchanges at the same time.
C6_UpgradeOnce ==
    /\ configureCalls <= 1
    /\ Cardinality({e \in Exchanges : pc[e] = "configuring"}) <= 1

\* C7 (as claimed): for an HTTP/1.1 exchange whose upstream declared a trailer and
\* sent its value after the body, the relayed response carries the trailer with
\* the upstream's value, and no trailer value is on the sink before the whole body
\* was written.
C7_TrailerRelayed ==
    \A e \in Exchanges :
        (inbound[e].ProtoMajor = 1 /\ Obtained(e)) =>
            /\ \A k \in DOMAIN resp[e].Trailer :
                  /\ (Finished(e) /\ bodyState[e] = "eof") =>
                        relayed[e].trailer[k] = <<Last(resp[e].Trailer[k])>>
                  /\ w[e].Header[k] # <<>> =>
                        Written(w[e]) = Flatten(resp[e].Body)

\* C8 (as claimed): an HTTP/2 exchange neither announces trailers in a Trailer
\* header nor sets trailer values on the sink.
C8_TrailersOnlyOnHTTP1 ==
    \A e \in Exchanges :
        inbound[e].ProtoMajor = 2 =>
            /\ "announce" \notin Range(events[e])
            /\ "trailers" \notin Range(events[e])
            /\ w[e].Header["Trailer"] = <<>>

\* C9: every header key of the upstream response is on the relayed response with
\* exactly one value, the last one the upstream sent for that key.
C9_LastValueWins ==
    \A e \in Exchanges :
        (Finished(e) /\ Obtained(e)) =>
            \A k \in PresentKeys(resp[e].Header) :
                relayed[e].header[k] = <<Last(resp[e].Header[k])>>

C9_Witness ==
    \E e \in Exchanges :
        /\ Finished(e) /\ Obtained(e)
        /\ Len(resp[e].Header["X"]) = 2
        /\ relayed[e].header["X"] = << <<"2">> >>

\* C10: every request handed to the upstream has the upstream target's host and
\* scheme and an empty RequestURI, whatever the inbound request carried.
C10_Rewritten ==
    \A e \in Exchanges :
        \A i \in DOMAIN outReq[e] :
            /\ outReq[e][i].Host = proxyHost.Host
            /\ outReq[e][i].URLHost = proxyHost.Host
            /\ outReq[e][i].URLScheme = proxyHost.Scheme
            /\ outReq[e][i].RequestURI = ""

C10_Witness ==
    \E e \in Exchanges :
        /\ outReq[e] # <<>>
        /\ inbound[e].Host # proxyHost.Host
        /\ inbound[e].URLScheme # proxyHost.Scheme
        /\ inbound[e].RequestURI # ""

\* A text without any of the characters ":", "[", "]".
Plain(s) == ~Contains(s, ":") /\ ~Contains(s, "[") /\ ~Contains(s, "]")

\* addr is ip:port or [ip]:port: ip is the caller's IP of remote address addr.
IsIPOf(ip, addr) ==
    \E n \in DOMAIN addr :
        LET host == SubSeq(addr, 1, n - 1)
            port == SubSeq(addr, n + 1, Len(addr))
        IN  /\ addr[n] = ":"
            /\ Plain(port)
            /\ \/ host = ip /\ Plain(ip)
               \/ /\ host = <<"[">> \o ip \o <<"]">>
                  /\ ~Contains(ip, "[") /\ ~Contains(ip, "]")

\* addr is neither ip:port nor [ip]:port for any ip.
Malformed(addr) ==
    ~\E a, b \in 0..Len(addr) : IsIPOf(SubSeq(addr, a + 1, b), addr)

\* The remote addresses of the inbound requests that are malformed.
MalformedAddrs == {r.RemoteAddr : r \in {q \in Requests : Malformed(q.RemoteAddr)}}

\* C11: every request handed to the upstream carries exactly one X-Forwarded-For
\* value, the caller's IP with the port (and the brackets of an IPv6 address)
\* stripped, whatever X-Forwarded-For values the inbound request carried; and a
\* request with a well-formed remote address is never refused for its address.
C11_ForwardedFor ==
    \A e \in Exchanges :
        /\ \A i \in DOMAIN outReq[e] :
              /\ Len(outReq[e][i].Header["X-Forwarded-For"]) = 1
              /\ IsIPOf(outReq[e][i].Header["X-Forwarded-For"][1], inbound[e].RemoteAddr)
        /\ (inbound[e] # NoReq /\ inbound[e].RemoteAddr \notin MalformedAddrs) =>
              lastErr[e].kind # "addr"

C11_Witness ==
    \E e, f \in Exchanges :
        /\ outReq[e] # <<>> /\ Len(inbound[e].Header["X-Forwarded-For"]) = 2
        /\ outReq[e][1].Header["X-Forwarded-For"] = << <<":", ":", "1">> >>
        /\ outReq[f] # <<>> /\ inbound[f].Header["X-Forwarded-For"] = <<>>
        /\ outReq[f][1].Header["X-Forwarded-For"] = << <<"1", "0">> >>

\* C12: an exchange whose remote address cannot be split into host and port ends
\* with status 500 and the error text as body, and hands no request to the
\* upstream (nor touches the transport, nor starts a flush loop).
C12_MalformedAddr ==
    \A e \in Exchanges :
        (inbound[e] # NoReq /\ inbound[e].RemoteAddr \in MalformedAddrs) =>
            /\ outReq[e] = <<>> /\ resp[e] = NoResp
            /\ pc[e] \in {"split", "returned", "finished"}
            /\ Returned(e) =>
                  /\ lastErr[e].kind = "addr" /\ lastErr[e].text # <<>>
                  /\ w[e].status = 500
                  /\ Written(w[e]) = lastErr[e].text \o <<"\n">>
                  /\ done[e] = "none" /\ fl[e] = "none"
            /\ Finished(e) =>
                  /\ relayed[e].status = 500
                  /\ relayed[e].body = lastErr[e].text \o <<"\n">>

C12_Witness ==
    \E e, f \in Exchanges :
        /\ Finished(e) /\ inbound[e].RemoteAddr = NoPortAddr /\ relayed[e].status = 500
        /\ Finished(f) /\ inbound[f].RemoteAddr = TooManyColonsAddr
        /\ inbound[f].ProtoMajor = 2 /\ configureCalls = 0

\* The upstream answered exchange e without a failure on its side: no transport
\* failure of the call and no failure while the body was copied.
UpstreamSteady(e) ==
    lastErr[e].kind # "transport" /\ bodyState[e] \notin {"readErr", "writeErr"}

\* C13 (as claimed): two identical requests against an upstream that returns the
\* same response each time are relayed structurally identically: same status,
\* same header keys and values including the Trailer announcement, same body,
\* for HTTP/1.1 and HTTP/2 requests and any number of declared trailers.
C13_Idempotent ==
    \A e, f \in Exchanges :
        (/\ Finished(e) /\ Finished(f)
         /\ inbound[e] = inbound[f]
         /\ UpstreamSteady(e) /\ UpstreamSteady(f)
         /\ (Obtained(e) /\ Obtained(f)) => resp[e] = resp[f])
        => /\ relayed[e].status = relayed[f].status
           /\ relayed[e].header = relayed[f].header
           /\ relayed[e].body = relayed[f].body

\* C14: against an upstream that writes its N chunks with a delay longer than the
\* flush interval after each, every chunk written to the sink is delivered to the
\* caller by the flush loop while the body is still being relayed, before the
\* next chunk is read; the caller has then received N separate non-empty
\* deliveries, one per chunk, in order.
C14_Streaming ==
    /\ \A e \in Exchanges :
          (pc[e] = "copy" /\ w[e].buf # <<>>) ~>
              (pc[e] = "copy" /\ w[e].buf = <<>> /\ Len(w[e].delivered) = readPos[e])
    /\ [][\A e \in Exchanges :
            readPos'[e] # readPos[e] =>
                /\ fl[e] = "waiting"
                /\ w[e].delivered = SubSeq(resp[e].Body, 1, readPos[e])]_vars
    /\ [](\A e \in Exchanges :
            bodyState[e] = "eof" =>
                /\ w[e].delivered = resp[e].Body
                /\ \A i \in DOMAIN w[e].delivered : w[e].delivered[i] # <<>>)

C14_Witness ==
    \E e \in Exchanges :
        /\ bodyState[e] = "eof" /\ Len(resp[e].Body) = MaxChunks
        /\ Len(w[e].delivered) = MaxChunks /\ fl[e] = "waiting"

\* C15: every call of ServeHTTP that has begun eventually returns, on every path:
\* malformed remote address, upgrade failure, failed outbound call, upstream that
\* stops sending mid-body (the read ends with the total timeout's error), and
\* the successful relay.
C15_Returns ==
    \A e \in Exchanges : (pc[e] # "idle") ~> Returned(e)

C15_Witness ==
    \E e, f \in Exchanges :
        /\ Returned(e) /\ lastErr[e].kind = "upgrade"
        /\ Returned(f) /\ bodyState[f] = "readErr" /\ readPos[f] < Len(resp[f].Body)

\* C16: an exchange whose inbound request is HTTP/2 issues its outbound call only
\* on a transport that has been upgraded to HTTP/2, and an upgrade is never
\* undone; the transport is modified, and http2.ConfigureTransport called, only
\* by a step of an exchange whose inbound request is HTTP/2.
C16_UpgradeBeforeCall ==
    [][/\ \A e \in Exchanges :
             (Len(outReq'[e]) > Len(outReq[e]) /\ inbound[e].ProtoMajor = 2) =>
                 transport.h2 /\ configureCalls >= 1
       /\ transport.h2 => transport'.h2
       /\ (transport' # transport \/ configureCalls' # configureCalls) =>
             \E e \in Exchanges : inbound[e].ProtoMajor = 2 /\ pc'[e] # pc[e]]_vars

C16_Witness ==
    \E e, f \in Exchanges :
        /\ inbound[e].ProtoMajor = 2 /\ outReq[e] # <<>>
        /\ transport.h2 /\ configureCalls = 1
        /\ inbound[f].ProtoMajor = 1 /\ outReq[f] # <<>> /\ Returned(f)

\* A string of the form scheme://host... : a scheme that begins with a letter, the
\* characters "://", and a host that is not empty.
AbsoluteURL(s) ==
    \E i \in 2..Len(s) :
        /\ s[1] \in Letters
        /\ \A j \in 1..(i - 1) : s[j] \in Letters \cup Digits
        /\ HasPrefix(SubSeq(s, i, Len(s)), <<":", "/", "/">>)
        /\ Len(s) >= i + 3
        /\ s[i + 3] \in Letters \cup Digits

\* C17 (as claimed): New returns a Proxy only for a valid absolute URL (scheme and
\* host); for every other string, relative and scheme-less ones included, it
\* returns an error and no Proxy.
C17_OnlyAbsolute ==
    newCall.state = "returned" =>
        /\ newCall.ok => AbsoluteURL(newCall.host)
        /\ newCall.ok <=> (newCall.err = "")

\* Everything exchange e owns: its request, response, sink, done channel, flush
\* goroutine and the positions of its two goroutines.
Local(e) ==
    <<pc[e], inbound[e], req[e], outReq[e], resp[e], trailer[e], readPos[e],
      bodyState[e], w[e], done[e], closeCount[e], fl[e], ticksAfterClose[e],
      lastErr[e], events[e], relayed[e]>>

\* C18: the upstream target is the one New stored and no step of any exchange, in
\* any interleaving, changes it; and a step changes the state of one exchange
\* only: besides the outbound client's transport nothing is written by one
\* exchange and held by another.
C18_TargetFixed ==
    /\ [](proxyHost = New(newCall.host).Host /\ newCall.ok)
    /\ [][/\ proxyHost' = proxyHost
          /\ newCall' = newCall
          /\ \A e, f \in Exchanges :
                (e # f /\ Local(e)' # Local(e)) => Local(f)' = Local(f)]_vars

C18_Witness ==
    \E e, f \in Exchanges :
        /\ e # f /\ pc[e] = "copy" /\ pc[f] = "copy"
        /\ inbound[e] # inbound[f] /\ resp[e] # resp[f]
        /\ inbound[e].Host # proxyHost.Host /\ inbound[f].Host # proxyHost.Host
        /\ outReq[e][1].Host = proxyHost.Host /\ outReq[f][1].Host = proxyHost.Host
        /\ proxyHost = UpstreamTarget

\* C19: every request handed to the upstream carries each header other than
\* X-Forwarded-For with the values the caller sent (no key added, dropped or
\* changed), and the caller's method, path and body.
C19_RequestKept ==
    \A e \in Exchanges :
        \A i \in DOMAIN outReq[e] :
            /\ \A k \in HeaderKeys \ {"X-Forwarded-For"} :
                  outReq[e][i].Header[k] = inbound[e].Header[k]
            /\ outReq[e][i].Method = inbound[e].Method
            /\ outReq[e][i].Path = inbound[e].Path
            /\ outReq[e][i].Body = inbound[e].Body

C19_Witness ==
    \E e \in Exchanges :
        /\ outReq[e] # <<>>
        /\ outReq[e][1].Header["Test-Header-1"] = << <<"1">> >>
        /\ outReq[e][1].Header["Test-Header-2"] = << <<"2">> >>
        /\ outReq[e][1].Header["X-Forwarded-For"] # inbound[e].Header["X-Forwarded-For"]
        /\ outReq[e][1].Path = "/" /\ outReq[e][1].Body = <<"payload">>

\* C20 (as claimed): in every interleaving of the handler and its flush loop the
\* sink's status and header set are committed by the handler's status write,
\* after the Trailer announcement, and never by a Flush of the loop: what is
\* committed is the upstream's status and a header set that holds the
\* announcement, never the implicit 200 of an early flush.
C20_NoEarlyFlush ==
    \A e \in Exchanges :
        (Obtained(e) /\ w[e].wroteHeader) =>
            /\ "announce" \in Range(events[e])
            /\ "status" \in Range(events[e])
            /\ w[e].status = resp[e].StatusCode
            /\ w[e].snapHeader["Trailer"] # <<>>

\* C21 (as claimed): in every interleaving the flush loop performs no Flush on the
\* sink after ServeHTTP has returned for the exchange, nor while the handler is
\* in the loop that writes the trailer values into the header map.
C21_NoLateFlush ==
    [][\A e \in Exchanges :
          TickFlush(e) => pc[e] \notin {"fill", "returned", "finished"}]_vars

\* C22 (as claimed): whenever ServeHTTP returns after having obtained an upstream
\* response, resp.Body has been released: read to end-of-stream, or ended by a
\* failed read (which makes the transport drop the connection), or closed; the
\* handler holds no call of resp.Body.Close, so a body it stops reading is never
\* closed.
C22_BodyReleased ==
    \A e \in Exchanges :
        (Returned(e) /\ Obtained(e)) =>
            \/ bodyState[e] = "eof" /\ readPos[e] = Len(resp[e].Body)
            \/ bodyState[e] = "readErr"

=============================================================================
